---- MODULE Spec2Model ----
(***************************************************************************)
(* RPNPostProcessor (maskrcnn_benchmark/modeling/rpn/inference.py).        *)
(*                                                                         *)
(* A BoxList is a sequence of records [bbox, objectness]; a bbox is        *)
(* <<x1, y1, x2, y2>> in inclusive pixel coordinates.  Scores are kept in  *)
(* thousandths (1000 = 1.0).  torch.topk does not define which of several  *)
(* equal scores it returns, so every top-k is a choice among all index     *)
(* sequences that are a valid answer.                                      *)
(***************************************************************************)
EXTENDS Integers, Sequences, FiniteSets, TLC

VARIABLES
    pc,               \* position in the constructor / forward
    cfg,              \* the constructor's arguments
    self,             \* the fields of the RPNPostProcessor
    anchors,          \* forward's anchors:        image -> level -> boxes
    objectness,       \* forward's objectness:     level -> image -> logits
    box_regression,   \* forward's box_regression: level -> image -> deltas
    targets,          \* forward's targets: None or image -> boxes
    sampled_boxes,    \* level -> image -> BoxList
    topk_idx,         \* image -> indices picked by the last level's top-k
    proposals,        \* image -> BoxList built by the last level before clipping
    aggregated,       \* boxlists as concatenated over the levels (line 176)
    selected,         \* boxlists as they stand before ground truth is added
    boxlists,         \* image -> BoxList, the value forward works on
    outcome           \* "running", "returned" or the exception raised

vars == <<pc, cfg, self, anchors, objectness, box_regression, targets,
          sampled_boxes, topk_idx, proposals, aggregated, selected,
          boxlists, outcome>>

\* an optional argument is None or Some(x)
None == <<>>
Some(x) == <<x>>

\* ------------------------------------------------------------------ bounds
MaxTopN == 2
MaxLogit == 1
MaxGt == 1

\* --------------------------------------------------------------- utilities
Min(a, b) == IF a <= b THEN a ELSE b
Max(a, b) == IF a >= b THEN a ELSE b

RECURSIVE Flatten(_)
Flatten(ss) == IF ss = <<>> THEN <<>> ELSE Head(ss) \o Flatten(Tail(ss))

RECURSIVE SumLen(_)
SumLen(ss) == IF ss = <<>> THEN 0 ELSE Len(Head(ss)) + SumLen(Tail(ss))

RECURSIVE MinLen(_)
MinLen(ss) ==
    IF ss = <<>> THEN 0
    ELSE IF Len(ss) = 1 THEN Len(Head(ss))
    ELSE Min(Len(Head(ss)), MinLen(Tail(ss)))

\* list(zip(*xs)): the transpose, cut at the shortest row, empty for no rows
ZipStar(xs) == [j \in 1..MinLen(xs) |-> [i \in 1..Len(xs) |-> xs[i][j]]]

\* --------------------------------------------------------- torch primitives
\* objectness.sigmoid() of an integer logit in -7..7, rounded to thousandths
Sigmoid(x) ==
    CASE x = -7 -> 1
      [] x = -6 -> 2
      [] x = -5 -> 7
      [] x = -4 -> 18
      [] x = -3 -> 47
      [] x = -2 -> 119
      [] x = -1 -> 269
      [] x = 0 -> 500
      [] x = 1 -> 731
      [] x = 2 -> 881
      [] x = 3 -> 953
      [] x = 4 -> 982
      [] x = 5 -> 993
      [] x = 6 -> 998
      [] x = 7 -> 999

Injective(s) == \A i, j \in DOMAIN s : i # j => s[i] # s[j]
Range(s) == {s[i] : i \in DOMAIN s}

\* torch.topk(v, k, sorted=True): every index sequence that is a valid answer
TopK(v, k) ==
    {s \in [1..k -> 1..Len(v)] :
        /\ Injective(s)
        /\ \A j \in 1..(k - 1) : v[s[j]] >= v[s[j + 1]]
        /\ \A m \in (1..Len(v)) \ Range(s) : \A j \in 1..k : v[m] <= v[s[j]]}

\* x[inds] for an integer index tensor
IndexBy(x, inds) == [j \in 1..Len(inds) |-> x[inds[j]]]

RECURSIVE MaskSelect(_, _)
\* x[mask] for a boolean mask
MaskSelect(x, mask) ==
    IF x = <<>> THEN <<>>
    ELSE (IF Head(mask) THEN <<Head(x)>> ELSE <<>>)
         \o MaskSelect(Tail(x), Tail(mask))

RECURSIVE Split(_, _)
\* t.split(sizes)
Split(t, sizes) ==
    IF sizes = <<>> THEN <<>>
    ELSE <<SubSeq(t, 1, Head(sizes))>>
         \o Split(SubSeq(t, Head(sizes) + 1, Len(t)), Tail(sizes))

\* t.reshape(N, -1, 4) of a tensor of N * num rows
Reshape(t, N, num) == [n \in 1..N |-> [j \in 1..num |-> t[(n - 1) * num + j]]]

\* ------------------------------------------- BoxList, BoxCoder, boxlist_ops
\* the (width, height) every BoxList of a call carries
ImageSize == <<8, 8>>

Width(b) == b[3] - b[1] + 1
Height(b) == b[4] - b[2] + 1

Clamp(x, lo, hi) == Max(lo, Min(x, hi))

\* BoxCoder.decode for one (delta, anchor) pair
Decode(d, a) == <<a[1] + d[1], a[2] + d[2], a[3] + d[1] + d[3], a[4] + d[2] + d[4]>>

\* BoxList.clip_to_image(remove_empty=False)
ClipToImage(bl) ==
    [j \in 1..Len(bl) |->
        [bl[j] EXCEPT !.bbox =
            <<Clamp(@[1], 0, ImageSize[1] - 1), Clamp(@[2], 0, ImageSize[2] - 1),
              Clamp(@[3], 0, ImageSize[1] - 1), Clamp(@[4], 0, ImageSize[2] - 1)>>]]

IsSmall(b, min_size) == Width(b) < min_size \/ Height(b) < min_size

\* remove_small_boxes(boxlist, min_size)
RemoveSmallBoxes(bl, min_size) ==
    MaskSelect(bl, [j \in 1..Len(bl) |-> ~IsSmall(bl[j].bbox, min_size)])

Area(b) == Width(b) * Height(b)
Inter(a, b) ==
    Max(0, Min(a[3], b[3]) - Max(a[1], b[1]) + 1)
    * Max(0, Min(a[4], b[4]) - Max(a[2], b[2]) + 1)

\* IoU(a, b) > t for the threshold t = <<numerator, denominator>>
IoUExceeds(a, b, t) == Inter(a, b) * t[2] > t[1] * (Area(a) + Area(b) - Inter(a, b))

\* the first position holding the highest score of bl
ArgMax(bl) ==
    CHOOSE j \in 1..Len(bl) :
        /\ \A m \in 1..Len(bl) : bl[m].objectness <= bl[j].objectness
        /\ \A m \in 1..(j - 1) : bl[m].objectness < bl[j].objectness

RECURSIVE Greedy(_, _, _, _)
Greedy(rest, kept, t, cap) ==
    IF rest = <<>> \/ Len(kept) >= cap THEN kept
    ELSE LET j == ArgMax(rest)
             best == rest[j]
             left == MaskSelect(rest, [m \in 1..Len(rest) |->
                        m # j /\ ~IoUExceeds(best.bbox, rest[m].bbox, t)])
         IN Greedy(left, Append(kept, best), t, cap)

\* boxlist_nms(boxlist, nms_thresh, max_proposals, score_field="objectness")
BoxlistNms(bl, nms_thresh, max_proposals) == Greedy(bl, <<>>, nms_thresh, max_proposals)

\* cat_boxlist(boxlists)
CatBoxlist(bls) == Flatten(bls)

Scores(bl) == [j \in 1..Len(bl) |-> bl[j].objectness]

\* ------------------------------------------------------- RPNPostProcessor
\* RPNPostProcessor.__init__; torch.nn.Module.__init__ (line 44) sets training
NewProcessor(c) ==
    [constructed |-> TRUE,
     pre_nms_top_n |-> c.pre_nms_top_n,
     post_nms_top_n |-> c.post_nms_top_n,
     nms_thresh |-> c.nms_thresh,
     min_size |-> c.min_size,
     fpn_post_nms_top_n |->
        IF c.fpn_post_nms_top_n = None THEN c.post_nms_top_n
        ELSE c.fpn_post_nms_top_n[1],
     fpn_post_nms_per_batch |-> c.fpn_post_nms_per_batch,
     training |-> TRUE]

\* one top-k answer per row of a batched tensor
TopKRows(rows, ks) ==
    {f \in [1..Len(rows) -> UNION {TopK(rows[n], ks[n]) : n \in 1..Len(rows)}] :
        \A n \in 1..Len(rows) : f[n] \in TopK(rows[n], ks[n])}

SigmoidRows(o) == [n \in 1..Len(o) |-> [j \in 1..Len(o[n]) |-> Sigmoid(o[n][j])]]

\* PreNmsTopK with pre_nms_top_n left out of the clamp
PreNmsTopK_AllAnchors(s, o, num_anchors) ==
    TopKRows(SigmoidRows(o), [n \in 1..Len(o) |-> num_anchors])

\* lines 105-110: the answers objectness.topk(pre_nms_top_n, dim=1) may give
PreNmsTopK(s, o, num_anchors) ==
    LET pre_nms_top_n == Min(s.pre_nms_top_n, num_anchors)
    IN TopKRows(SigmoidRows(o), [n \in 1..Len(o) |-> pre_nms_top_n])

\* BuildProposals with the anchors taken by output position, not by topk_idx
BuildProposals_AnchorsByPosition(a, o, b, num_anchors, idx) ==
    LET N == Len(o)
        sig == SigmoidRows(o)
        concat_anchors == Reshape(Flatten(a), N, num_anchors)
    IN [n \in 1..N |->
           [j \in 1..Len(idx[n]) |->
               [bbox |-> Decode(b[n][idx[n][j]], concat_anchors[n][j]),
                objectness |-> sig[n][idx[n][j]]]]]

\* BuildProposals with the scores read from the first image's row
BuildProposals_FirstRowScores(a, o, b, num_anchors, idx) ==
    LET N == Len(o)
        sig == SigmoidRows(o)
        concat_anchors == Reshape(Flatten(a), N, num_anchors)
    IN [n \in 1..N |->
           [j \in 1..Len(idx[n]) |->
               [bbox |-> Decode(b[n][idx[n][j]], concat_anchors[n][idx[n][j]]),
                objectness |-> sig[1][idx[n][j]]]]]

\* lines 110-130: the boxes and scores gathered and decoded at the indices idx
BuildProposals(a, o, b, num_anchors, idx) ==
    LET N == Len(o)
        sig == SigmoidRows(o)
        score == [n \in 1..N |-> IndexBy(sig[n], idx[n])]
        deltas == [n \in 1..N |-> IndexBy(b[n], idx[n])]
        concat_anchors == Reshape(Flatten(a), N, num_anchors)
        gathered == [n \in 1..N |-> IndexBy(concat_anchors[n], idx[n])]
    IN [n \in 1..N |->
           [j \in 1..Len(idx[n]) |->
               [bbox |-> Decode(deltas[n][j], gathered[n][j]),
                objectness |-> score[n][j]]]]

\* FilterProposals without remove_small_boxes
FilterProposals_NoMinSize(s, props) ==
    [n \in 1..Len(props) |->
        BoxlistNms(ClipToImage(props[n]), s.nms_thresh, s.post_nms_top_n)]

\* lines 132-147: clip, drop small boxes, suppress
FilterProposals(s, props) ==
    [n \in 1..Len(props) |->
        BoxlistNms(RemoveSmallBoxes(ClipToImage(props[n]), s.min_size),
                   s.nms_thresh, s.post_nms_top_n)]

\* RPNPostProcessor.forward_for_single_feature_map, for the top-k answer idx
ForwardForSingleFeatureMap(s, a, o, b, num_anchors, idx) ==
    FilterProposals(s, BuildProposals(a, o, b, num_anchors, idx))

\* SelectPerBatch with the mask not split by box_sizes
SelectPerBatch_NoSplit(bl, inds_sorted) ==
    LET inds_mask == [m \in 1..SumLen(bl) |-> m \in Range(inds_sorted)]
    IN [i \in 1..Len(bl) |-> MaskSelect(bl[i], SubSeq(inds_mask, 1, Len(bl[i])))]

\* lines 195-205: the per-batch selection, for the top-k answer inds_sorted
SelectPerBatch(bl, inds_sorted) ==
    LET total == SumLen(bl)
        box_sizes == [i \in 1..Len(bl) |-> Len(bl[i])]
        inds_mask == Split([m \in 1..total |-> m \in Range(inds_sorted)], box_sizes)
    IN [i \in 1..Len(bl) |-> MaskSelect(bl[i], inds_mask[i])]

\* SelectOverAllLevels with every k the full length, fpn_post_nms_top_n unused
SelectOverAllLevels_NoCap(s, bl) ==
    IF s.training /\ s.fpn_post_nms_per_batch
    THEN LET pooled == Flatten([i \in 1..Len(bl) |-> Scores(bl[i])])
         IN {SelectPerBatch(bl, inds) : inds \in TopK(pooled, Len(pooled))}
    ELSE LET rows == [i \in 1..Len(bl) |-> Scores(bl[i])]
         IN {[i \in 1..Len(bl) |-> IndexBy(bl[i], f[i])] :
                f \in TopKRows(rows, [i \in 1..Len(rows) |-> Len(rows[i])])}

\* SelectOverAllLevels taking the per-batch branch in inference too
SelectOverAllLevels_IgnoreTraining(s, bl) ==
    IF s.fpn_post_nms_per_batch
    THEN LET pooled == Flatten([i \in 1..Len(bl) |-> Scores(bl[i])])
             post_nms_top_n == Min(s.fpn_post_nms_top_n, Len(pooled))
         IN {SelectPerBatch(bl, inds) : inds \in TopK(pooled, post_nms_top_n)}
    ELSE LET rows == [i \in 1..Len(bl) |-> Scores(bl[i])]
         IN {[i \in 1..Len(bl) |-> IndexBy(bl[i], f[i])] :
                f \in TopKRows(rows, [i \in 1..Len(rows) |->
                                      Min(s.fpn_post_nms_top_n, Len(rows[i]))])}

\* RPNPostProcessor.select_over_all_levels: every result it may return
SelectOverAllLevels(s, bl) ==
    IF s.training /\ s.fpn_post_nms_per_batch
    THEN LET pooled == Flatten([i \in 1..Len(bl) |-> Scores(bl[i])])
             post_nms_top_n == Min(s.fpn_post_nms_top_n, Len(pooled))
         IN {SelectPerBatch(bl, inds) : inds \in TopK(pooled, post_nms_top_n)}
    ELSE LET rows == [i \in 1..Len(bl) |-> Scores(bl[i])]
         IN {[i \in 1..Len(bl) |-> IndexBy(bl[i], f[i])] :
                f \in TopKRows(rows, [i \in 1..Len(rows) |->
                                      Min(s.fpn_post_nms_top_n, Len(rows[i]))])}

\* AddGtProposals with the dummy objectness made of zeros
AddGtProposals_ZeroScore(bl, t) ==
    LET gt_boxes == [i \in 1..Len(t) |->
                        [j \in 1..Len(t[i]) |-> [bbox |-> t[i][j], objectness |-> 0]]]
    IN [i \in 1..Min(Len(bl), Len(gt_boxes)) |-> CatBoxlist(<<bl[i], gt_boxes[i]>>)]

\* RPNPostProcessor.add_gt_proposals, past the read of proposals[0]
AddGtProposals(bl, t) ==
    LET gt_boxes == [i \in 1..Len(t) |->
                        [j \in 1..Len(t[i]) |-> [bbox |-> t[i][j], objectness |-> 1000]]]
    IN [i \in 1..Min(Len(bl), Len(gt_boxes)) |-> CatBoxlist(<<bl[i], gt_boxes[i]>>)]

RECURSIVE SampledBoxes(_, _, _, _, _, _)
\* forward, lines 172-173: every value sampled_boxes may hold after l rounds
SampledBoxes(s, za, o, b, num, l) ==
    IF l = 0 THEN {<<>>}
    ELSE {Append(p, ForwardForSingleFeatureMap(s, za[l], o[l], b[l], num[l], idx)) :
             p \in SampledBoxes(s, za, o, b, num, l - 1),
             idx \in PreNmsTopK(s, o[l], num[l])}

\* RPNPostProcessor.forward on a batch of at least one image: every list of
\* BoxLists it may return
Forward(s, a, o, b, t, num) ==
    LET za == ZipStar(a)
        rounds == Min(Len(za), Min(Len(o), Len(b)))
        cat(sb) == LET zipped == ZipStar(sb)
                   IN [i \in 1..Len(zipped) |-> CatBoxlist(zipped[i])]
        sel(bl) == IF Len(o) > 1 THEN SelectOverAllLevels(s, bl) ELSE {bl}
        gt(bl) == IF s.training /\ t # None THEN AddGtProposals(bl, t[1]) ELSE bl
    IN UNION {{gt(bl) : bl \in sel(cat(sb))} : sb \in SampledBoxes(s, za, o, b, num, rounds)}

\* ------------------------------------------------------------------ inputs
\* the anchors of each feature level, the same for every image
LevelAnchors == << << <<0, 0, 3, 3>>, <<1, 0, 4, 3>> >>, << <<4, 4, 9, 9>> >> >>
\* the shape (A, H, W) of each level's objectness tensor
LevelShape == << <<2, 1, 1>>, <<1, 1, 1>> >>
NumAnchors(l) == LevelShape[l][1] * LevelShape[l][2] * LevelShape[l][3]

ZeroDelta == <<0, 0, 0, 0>>
ShrinkDelta == <<0, 0, -3, 0>>
SmallGt == <<2, 2, 2, 5>>
LargeGt == <<1, 1, 5, 5>>
Half == <<1, 2>>
SevenTenths == <<7, 10>>
ThreeHalves == <<3, 2>>

\* one tensor per level, each N x (A*H*W) over the values S
LevelTensors(L, N, S) ==
    LET T(l) == [1..N -> [1..NumAnchors(l) -> S]]
    IN {t \in [1..L -> UNION {T(l) : l \in 1..L}] : \A l \in 1..L : t[l] \in T(l)}

GtLists(Boxes) == UNION {[1..k -> Boxes] : k \in 0..MaxGt}

\* the target lists for N images, every image drawing its boxes from Boxes
AnyTargets(Boxes) == [N \in 0..2 |-> [1..N -> GtLists(Boxes)]]

\* one target list per batch size: the images hold different numbers of boxes
\* and no box occurs twice
MixedTargets ==
    [N \in 0..2 |->
        {[i \in 1..N |-> [j \in 1..(i % (MaxGt + 1)) |-> <<i, j, 5, 5>>]]}]

InitWith(Cfgs, Batches, Logits, Deltas, Tgts) ==
    /\ pc = "new"
    /\ cfg \in Cfgs
    /\ self = [constructed |-> FALSE]
    /\ \E shape \in Batches :
          LET L == shape[1]
              N == shape[2]
          IN /\ anchors = [i \in 1..N |-> [l \in 1..L |-> LevelAnchors[l]]]
             /\ objectness \in LevelTensors(L, N, Logits)
             /\ box_regression \in LevelTensors(L, N, Deltas)
             /\ targets \in {None} \cup {Some(t) : t \in Tgts[N]}
    /\ sampled_boxes = <<>>
    /\ topk_idx = <<>>
    /\ proposals = <<>>
    /\ aggregated = <<>>
    /\ selected = <<>>
    /\ boxlists = <<>>
    /\ outcome = "running"

\* ----------------------------------------------------------------- actions
\* RPNPostProcessor.__init__ (lines 44-57)
Construct ==
    /\ pc = "new"
    /\ self' = NewProcessor(cfg)
    /\ pc' = "ready"
    /\ UNCHANGED <<cfg, anchors, objectness, box_regression, targets, sampled_boxes,
                   topk_idx, proposals, aggregated, selected, boxlists, outcome>>

\* train(mode) and eval(), inherited from torch.nn.Module, between the
\* construction and the call of forward
Train ==
    /\ pc = "ready"
    /\ \E mode \in BOOLEAN : self' = [self EXCEPT !.training = mode]
    /\ UNCHANGED <<pc, cfg, anchors, objectness, box_regression, targets, sampled_boxes,
                   topk_idx, proposals, aggregated, selected, boxlists, outcome>>

num_levels == Len(objectness)
\* the number of rounds of the loop of line 172
Rounds == Min(Len(ZipStar(anchors)), Min(Len(objectness), Len(box_regression)))

\* forward, lines 167-169
ForwardBegin ==
    /\ pc = "ready"
    /\ sampled_boxes' = <<>>
    /\ pc' = "levels"
    /\ UNCHANGED <<cfg, self, anchors, objectness, box_regression, targets,
                   topk_idx, proposals, aggregated, selected, boxlists, outcome>>

\* forward, lines 172-173: one round of the loop over the levels
ForwardLevel ==
    /\ pc = "levels"
    /\ Len(sampled_boxes) < Rounds
    /\ LET l == Len(sampled_boxes) + 1
           a == ZipStar(anchors)[l]
           o == objectness[l]
           b == box_regression[l]
       IN \E idx \in PreNmsTopK(self, o, NumAnchors(l)) :
             /\ topk_idx' = idx
             /\ proposals' = BuildProposals(a, o, b, NumAnchors(l), idx)
             /\ sampled_boxes' = Append(sampled_boxes,
                    ForwardForSingleFeatureMap(self, a, o, b, NumAnchors(l), idx))
    /\ UNCHANGED <<pc, cfg, self, anchors, objectness, box_regression, targets,
                   aggregated, selected, boxlists, outcome>>

\* forward, lines 175-176
ForwardCat ==
    /\ pc = "levels"
    /\ Len(sampled_boxes) = Rounds
    /\ LET zipped == ZipStar(sampled_boxes)
       IN boxlists' = [i \in 1..Len(zipped) |-> CatBoxlist(zipped[i])]
    /\ aggregated' = boxlists'
    /\ pc' = "select"
    /\ UNCHANGED <<cfg, self, anchors, objectness, box_regression, targets,
                   sampled_boxes, topk_idx, proposals, selected, outcome>>

\* torch.cat of an empty list of tensors raises (line 195)
CatRaises(bl) == self.training /\ self.fpn_post_nms_per_batch /\ Len(bl) = 0

\* forward, lines 178-179
ForwardSelect ==
    /\ pc = "select"
    /\ IF num_levels > 1
       THEN IF CatRaises(boxlists)
            THEN /\ outcome' = "RuntimeError"
                 /\ pc' = "raised"
                 /\ UNCHANGED <<boxlists, selected>>
            ELSE /\ boxlists' \in SelectOverAllLevels(self, boxlists)
                 /\ selected' = boxlists'
                 /\ pc' = "gt"
                 /\ UNCHANGED outcome
       ELSE /\ selected' = boxlists
            /\ pc' = "gt"
            /\ UNCHANGED <<boxlists, outcome>>
    /\ UNCHANGED <<cfg, self, anchors, objectness, box_regression, targets,
                   sampled_boxes, topk_idx, proposals, aggregated>>

\* forward, lines 182-185
ForwardReturn ==
    /\ pc = "gt"
    /\ IF self.training /\ targets # None
       THEN IF Len(boxlists) = 0
            THEN \* proposals[0] of an empty list (line 66)
                 /\ outcome' = "IndexError"
                 /\ pc' = "raised"
                 /\ UNCHANGED boxlists
            ELSE /\ boxlists' = AddGtProposals(boxlists, targets[1])
                 /\ outcome' = "returned"
                 /\ pc' = "done"
       ELSE /\ outcome' = "returned"
            /\ pc' = "done"
            /\ UNCHANGED boxlists
    /\ UNCHANGED <<cfg, self, anchors, objectness, box_regression, targets,
                   sampled_boxes, topk_idx, proposals, aggregated, selected>>

Next == Construct \/ Train \/ ForwardBegin \/ ForwardLevel \/ ForwardCat \/ ForwardSelect
        \/ ForwardReturn

\* ---------------------------------------------------------- specifications
Configs(Pre, Post, Thr, Ms, Fpn, PerBatch) ==
    [pre_nms_top_n : Pre, post_nms_top_n : Post, nms_thresh : Thr, min_size : Ms,
     fpn_post_nms_top_n : Fpn, fpn_post_nms_per_batch : PerBatch]

\* every per-level setting and boxes that shrink below min_size: one image at
\* most over two levels, or two images over one level
InitLevel ==
    \/ InitWith(Configs(1..MaxTopN, 1..MaxTopN, {Half, ThreeHalves}, {-1, 0, 2},
                        {None}, {TRUE}),
                {<<1, 0>>, <<1, 1>>, <<2, 0>>, <<2, 1>>},
                0..MaxLogit, {ZeroDelta, ShrinkDelta}, AnyTargets({SmallGt, LargeGt}))
    \/ InitWith(Configs(1..MaxTopN, {MaxTopN}, {Half, ThreeHalves}, {0, 2},
                        {None}, {TRUE}),
                {<<1, 2>>},
                0..MaxLogit, {ZeroDelta, ShrinkDelta}, AnyTargets({}))

\* up to two images, every final-selection setting
InitSelect ==
    InitWith(Configs({MaxTopN}, 1..MaxTopN, {SevenTenths}, {0},
                     {Some(k) : k \in 1..MaxTopN}, BOOLEAN),
             (1..2) \X (0..2),
             0..MaxLogit, {ZeroDelta}, MixedTargets)

\* two images, every final-selection mode
InitIsolation ==
    InitWith(Configs({MaxTopN}, {MaxTopN}, {SevenTenths}, {0},
                     {Some(k) : k \in 1..MaxTopN}, BOOLEAN),
             {<<1, 2>>, <<2, 2>>},
             {0, 1}, {ZeroDelta}, MixedTargets)

Spec == InitSelect /\ [][Next]_vars
SpecIsolation == InitIsolation /\ [][Next]_vars
SpecLevel == InitLevel /\ [][Next]_vars

\* ------------------------------------------------------------------ claims
Returned == pc = "done"
MultiLevel == num_levels > 1
PerBatchMode == self.constructed /\ self.training /\ self.fpn_post_nms_per_batch
Injecting == self.constructed /\ self.training /\ targets # None
GtCount(i) == IF Injecting THEN Len(targets[1][i]) ELSE 0

\* C1 (as stated): with more than one level, every image's returned proposal
\* count is at most fpn_post_nms_top_n, in every mode, with or without targets.
C1_CountWithinFpnTopN ==
    (Returned /\ MultiLevel) =>
        \A i \in 1..Len(boxlists) : Len(boxlists[i]) <= self.fpn_post_nms_top_n

\* C1 (amended): with more than one level, every image's returned proposal
\* count is at most fpn_post_nms_top_n plus the number of ground-truth boxes
\* injected for that image (none unless training with targets).
C1_CountWithinFpnTopNPlusGt ==
    (Returned /\ MultiLevel) =>
        \A i \in 1..Len(boxlists) :
            /\ Len(selected[i]) <= self.fpn_post_nms_top_n
            /\ Len(boxlists[i]) <= self.fpn_post_nms_top_n + GtCount(i)

C1_Witness ==
    /\ Returned /\ MultiLevel /\ Injecting
    /\ \E i \in 1..Len(boxlists) :
          /\ Len(aggregated[i]) > self.fpn_post_nms_top_n
          /\ GtCount(i) > 0
          /\ Len(boxlists[i]) = self.fpn_post_nms_top_n + GtCount(i)

\* C3: when forward returns in training mode with targets, each image's result
\* is its post-selection proposal list, unchanged, followed by every one of its
\* ground-truth boxes with objectness exactly 1.0; no cap or suppression is
\* applied after the injection.
C3_GtInjectedAfterSelection ==
    (Returned /\ Injecting) =>
        /\ Len(boxlists) = Len(targets[1])
        /\ Len(boxlists) = Len(selected)
        /\ \A i \in 1..Len(boxlists) :
              /\ Len(boxlists[i]) = Len(selected[i]) + Len(targets[1][i])
              /\ SubSeq(boxlists[i], 1, Len(selected[i])) = selected[i]
              /\ \A j \in 1..Len(targets[1][i]) :
                    /\ boxlists[i][Len(selected[i]) + j].bbox = targets[1][i][j]
                    /\ boxlists[i][Len(selected[i]) + j].objectness = 1000

C3_Witness ==
    /\ Returned /\ Injecting /\ MultiLevel
    /\ \E i \in 1..Len(boxlists) :
          /\ Len(targets[1][i]) > 0
          /\ Len(selected[i]) = self.fpn_post_nms_top_n
          /\ Len(selected[i]) < Len(aggregated[i])
          /\ Len(boxlists[i]) > self.fpn_post_nms_top_n

\* C9: forward called with zero images never raises: it returns, in every mode
\* and whether or not targets are supplied.
C9_EmptyInputReturns ==
    Len(anchors) = 0 => outcome \in {"running", "returned"}

Selecting == pc \in {"gt", "done"} /\ MultiLevel

\* one boolean mask per image, shaped like the aggregated lists
KeepMasks ==
    {ms \in [1..Len(aggregated) ->
                UNION {[1..Len(aggregated[i]) -> BOOLEAN] : i \in 1..Len(aggregated)}] :
        \A i \in 1..Len(aggregated) : Len(ms[i]) = Len(aggregated[i])}

\* C6: per-batch final selection keeps exactly min(fpn_post_nms_top_n, pooled
\* count) proposals over the whole batch, each survivor scoring at least as
\* much as each dropped proposal, and every image's survivors are a
\* subsequence of that image's own aggregated list (same image, same order).
C6_PerBatchSelection ==
    (Selecting /\ PerBatchMode) =>
        /\ Len(selected) = Len(aggregated)
        /\ SumLen(selected) = Min(self.fpn_post_nms_top_n, SumLen(aggregated))
        /\ \E ms \in KeepMasks :
              /\ \A i \in 1..Len(aggregated) :
                    selected[i] = MaskSelect(aggregated[i], ms[i])
              /\ \A i1, i2 \in 1..Len(aggregated) :
                    \A j1 \in 1..Len(aggregated[i1]), j2 \in 1..Len(aggregated[i2]) :
                        (ms[i1][j1] /\ ~ms[i2][j2]) =>
                            aggregated[i1][j1].objectness >= aggregated[i2][j2].objectness

C6_Witness ==
    /\ Returned /\ MultiLevel /\ PerBatchMode
    /\ Len(aggregated) = 2
    /\ \E i, k \in 1..2 :
          /\ i # k
          /\ Len(selected[i]) = 2
          /\ selected[i][1].objectness < selected[i][2].objectness
          /\ Len(aggregated[k]) > 0
          /\ Len(selected[k]) = 0

RECURSIVE Insert(_, _)
Insert(x, sorted) ==
    IF sorted = <<>> THEN <<x>>
    ELSE IF x >= Head(sorted) THEN <<x>> \o sorted
    ELSE <<Head(sorted)>> \o Insert(x, Tail(sorted))

RECURSIVE SortDesc(_)
SortDesc(v) == IF v = <<>> THEN <<>> ELSE Insert(Head(v), SortDesc(Tail(v)))

Count(x, bl) == Cardinality({j \in 1..Len(bl) : bl[j] = x})

\* C7: per-image final selection (inference, or training with the per-batch
\* flag unset) returns for each image the min(fpn_post_nms_top_n, available)
\* highest scores of its aggregated list in descending order, each returned
\* proposal being one of that image's aggregated proposals.
C7_PerImageSelection ==
    (Selecting /\ ~PerBatchMode) =>
        /\ Len(selected) = Len(aggregated)
        /\ \A i \in 1..Len(aggregated) :
              LET k == Min(self.fpn_post_nms_top_n, Len(aggregated[i]))
              IN /\ Scores(selected[i]) = SubSeq(SortDesc(Scores(aggregated[i])), 1, k)
                 /\ \A j \in 1..Len(selected[i]) :
                       Count(selected[i][j], selected[i]) <= Count(selected[i][j], aggregated[i])

C7_Witness ==
    /\ Returned /\ MultiLevel
    /\ ~self.training /\ self.fpn_post_nms_per_batch
    /\ self.fpn_post_nms_top_n = 2
    /\ \E i \in 1..Len(aggregated) :
          /\ Scores(aggregated[i]) = <<731, 500, 731>>
          /\ Scores(selected[i]) = <<731, 731>>

LevelSizes == [l \in 1..num_levels |-> NumAnchors(l)]
Perms(N) == {p \in [1..N -> 1..N] : Injective(p)}

\* what forward may return for the batch with its images reordered by p
ForwardPermuted(p) ==
    Forward(self,
            [i \in 1..Len(p) |-> anchors[p[i]]],
            [l \in 1..num_levels |-> [i \in 1..Len(p) |-> objectness[l][p[i]]]],
            [l \in 1..num_levels |-> [i \in 1..Len(p) |-> box_regression[l][p[i]]]],
            IF targets = None THEN None ELSE Some([i \in 1..Len(p) |-> targets[1][p[i]]]),
            LevelSizes)

\* what forward may return for image i when it is the only image of the batch
ForwardAlone(i) == {r[1] : r \in ForwardPermuted(<<i>>)}

PermutationEquivariant ==
    \A p \in Perms(Len(boxlists)) \ {[i \in 1..Len(boxlists) |-> i]} :
        [i \in 1..Len(p) |-> boxlists[p[i]]] \in ForwardPermuted(p)

\* C8 (as stated): in every mode, reordering the images reorders the result
\* alike, and the proposals returned for an image are those forward returns for
\* that image whatever the other images of the batch hold.
C8_PerImageIsolation ==
    Returned =>
        /\ PermutationEquivariant
        /\ \A i \in 1..Len(boxlists) : boxlists[i] \in ForwardAlone(i)

\* C8 (amended): in every mode, reordering the images reorders the result alike
\* (up to the choice torch.topk makes among equal scores); and, except under
\* per-batch final selection (training, fpn_post_nms_per_batch set, more than
\* one level), the proposals returned for an image are those forward returns
\* for that image alone.
C8_IsolationOutsidePerBatch ==
    Returned =>
        /\ PermutationEquivariant
        /\ ~(PerBatchMode /\ MultiLevel) =>
              \A i \in 1..Len(boxlists) : boxlists[i] \in ForwardAlone(i)

C8_Witness ==
    /\ Returned /\ MultiLevel /\ ~PerBatchMode
    /\ Len(boxlists) = 2
    /\ Scores(aggregated[1]) # Scores(aggregated[2])
    /\ Len(selected[1]) < Len(aggregated[1])
    /\ boxlists[1] \in ForwardAlone(1)
    /\ boxlists[1] \notin ForwardAlone(2)

\* the level forward_for_single_feature_map ran on last
LastLevel == Len(sampled_boxes)

\* C2: each level returns, for each image, at most
\* min(post_nms_top_n, pre_nms_top_n, A*H*W) proposals; the pre-NMS top-k takes
\* k = min(pre_nms_top_n, A*H*W), and the filtering steps only shrink the set.
C2_PerLevelCountBound ==
    /\ \A l \in 1..Len(sampled_boxes) : \A n \in 1..Len(sampled_boxes[l]) :
          Len(sampled_boxes[l][n])
              <= Min(self.post_nms_top_n, Min(self.pre_nms_top_n, NumAnchors(l)))
    /\ LastLevel > 0 =>
          \A n \in 1..Len(topk_idx) :
              /\ Len(topk_idx[n]) = Min(self.pre_nms_top_n, NumAnchors(LastLevel))
              /\ Len(proposals[n]) = Len(topk_idx[n])
              /\ Len(sampled_boxes[LastLevel][n]) <= Len(proposals[n])

C2_Witness ==
    /\ LastLevel = 2
    /\ self.pre_nms_top_n > NumAnchors(2)
    /\ self.post_nms_top_n > NumAnchors(2)
    /\ Len(topk_idx) = 1
    /\ Len(topk_idx[1]) = NumAnchors(2)
    /\ Len(sampled_boxes[2][1]) = NumAnchors(2)
    /\ Len(sampled_boxes[1][1]) = 1
    /\ self.pre_nms_top_n = 2
    /\ self.post_nms_top_n = 2

\* C4 (as stated): no box narrower or lower than min_size is in any BoxList
\* forward returns, in training and in inference, with or without targets.
C4_NoSmallBoxReturned ==
    Returned =>
        \A i \in 1..Len(boxlists) : \A j \in 1..Len(boxlists[i]) :
            ~IsSmall(boxlists[i][j].bbox, self.min_size)

\* C4 (amended): a box narrower or lower than min_size is in a returned BoxList
\* only as a ground-truth box injected in training with targets; no proposal
\* that came out of the levels is smaller than min_size.
C4_NoSmallProposalReturned ==
    Returned =>
        \A i \in 1..Len(boxlists) : \A j \in 1..Len(boxlists[i]) :
            IsSmall(boxlists[i][j].bbox, self.min_size) =>
                /\ Injecting
                /\ j > Len(selected[i])
                /\ boxlists[i][j].bbox = targets[1][i][j - Len(selected[i])]

C4_Witness ==
    /\ Returned
    /\ self.min_size = 2
    /\ Len(proposals) = 1
    /\ \E j \in 1..Len(proposals[1]) :
          /\ IsSmall(ClipToImage(proposals[1])[j].bbox, self.min_size)
          /\ proposals[1][j].objectness = 731
    /\ Len(boxlists[1]) > 0

\* C5: every box built from the pre-NMS top-k is decode(delta, anchor) at one
\* index of its own image's flattened deltas and anchors, and carries the
\* sigmoid of that image's score at the same index.
C5_IndexCorrespondence ==
    LastLevel > 0 =>
        /\ Len(topk_idx) = Len(objectness[LastLevel])
        /\ Len(proposals) = Len(topk_idx)
        /\ \A n \in 1..Len(topk_idx) :
              /\ Len(proposals[n]) = Len(topk_idx[n])
              /\ \A j \in 1..Len(topk_idx[n]) :
                    LET idx == topk_idx[n][j]
                    IN /\ proposals[n][j].bbox =
                             Decode(box_regression[LastLevel][n][idx],
                                    anchors[n][LastLevel][idx])
                       /\ proposals[n][j].objectness =
                             Sigmoid(objectness[LastLevel][n][idx])

C5_Witness ==
    /\ LastLevel = 1
    /\ Len(topk_idx) = 2
    /\ topk_idx[1] = <<2, 1>>
    /\ topk_idx[2] = <<1>> \/ topk_idx[2] = <<1, 2>>
    /\ box_regression[1][1] # box_regression[1][2]
    /\ objectness[1][1] # objectness[1][2]
    /\ box_regression[1][1][1] # box_regression[1][1][2]

\* C10: a constructed RPNPostProcessor never holds a negative min_size or an
\* nms_thresh outside [0, 1]: the constructor rejects such arguments.
C10_ConfigurationValidated ==
    self.constructed =>
        /\ self.min_size >= 0
        /\ self.nms_thresh[1] >= 0
        /\ self.nms_thresh[1] <= self.nms_thresh[2]
====
